---------------------------- MODULE Spec2Model ----------------------------
(***************************************************************************)
(* TaskFlow: the task list owned by App, the command interpreter           *)
(* (processAgentCommand of the Gemini service) and the focus session of    *)
(* FocusMode, as state machines.                                           *)
(*                                                                         *)
(* Strings are sequences of one-character strings, so that toLowerCase and *)
(* includes are computed and not assumed.  JavaScript array indices are    *)
(* kept 0-based in the operators that carry them (findIndex, splice,       *)
(* targetIndex); a TLA+ sequence position is that index plus one.          *)
(***************************************************************************)
EXTENDS Integers, Sequences, FiniteSets, TLC

VARIABLES
  tasks,          \* App: const [tasks, setTasks] = useState<Task[]>([])
  mode,           \* App: const [mode, setMode] = useState<AppMode>('planning')
  uuid,           \* number of handler runs that have drawn crypto.randomUUID() values
  quickReqs,      \* Dashboard.handleAddQuickTask: ids whose generateStepsForTask is in flight
  isAnalyzing,    \* Dashboard: useState(false)
  imageReqs,      \* number of analyzeHomeworkImage calls in flight
  alerted,        \* Dashboard: the image result handled last ended in the alert()
  isProcessing,   \* CompanionChat: useState(false)
  cmdReqs,        \* processAgentCommand calls in flight: [tasks, mounted]
  reply,          \* CompanionChat: text of the agent message appended last
  timeLeft,       \* FocusMode: useState timeLeft
  isPlaying,      \* FocusMode: useState isPlaying
  totalTime,      \* FocusMode: useState totalTime
  localSteps,     \* FocusMode: useState localSteps
  prevTaskIdRef,  \* FocusMode: useRef<string | null>(null)
  genReqs,        \* FocusMode: generateStepsForTask calls in flight, by requesting task id
  intervals,      \* FocusMode: number of setInterval timers set and not cleared
  run             \* the processAgentCommand invocation being executed (its locals)

appVars   == <<tasks, mode, uuid, quickReqs, isAnalyzing, imageReqs, alerted, isProcessing,
               cmdReqs, reply>>
focusVars == <<timeLeft, isPlaying, totalTime, localSteps, prevTaskIdRef, genReqs, intervals>>
vars      == <<appVars, focusVars, run>>

----------------------------------------------------------------------------
(* Bounds of the model *)

MaxTasks == 3      \* longest task list drawn as an input of processAgentCommand
MaxCalls == 2      \* most function calls in one agent response
MaxPos   == 4      \* largest newPosition an agent response carries
MaxRuns  == 2      \* times one agent response is handled in a row
MaxUuid  == 2      \* most handler runs that draw crypto.randomUUID() values
MaxCmds  == 1      \* most processAgentCommand calls in flight
MaxChat  == 2      \* most processAgentCommand calls in flight in the chat's own specification
MaxImgs  == 1      \* most analyzeHomeworkImage calls in flight
MaxTicks == 1      \* most ticks followed within one task's countdown
MaxFocus == 2      \* most tasks of a list a focus session is entered on

\* FocusMode: estimatedMinutes * 60
SecondsPerMinute == 60

\* Dashboard.handleAddQuickTask: estimatedMinutes: 30
QuickAddMinutes == 30

\* FocusMode: percentLeft is a fraction times 100; below 40 the time is getting
\* tight, below 15 it is urgent
Percent       == 100
TightPercent  == 40
UrgentPercent == 15

----------------------------------------------------------------------------
(* Strings *)

Upper == <<"A","B","C","D","E","F","G","H","I","J","K","L","M",
           "N","O","P","Q","R","S","T","U","V","W","X","Y","Z">>
Lower == <<"a","b","c","d","e","f","g","h","i","j","k","l","m",
           "n","o","p","q","r","s","t","u","v","w","x","y","z">>

\* the lower-case letter of each upper-case letter
LowerOf ==
  [c \in { Upper[i] : i \in DOMAIN Upper } |-> Lower[CHOOSE i \in DOMAIN Upper : Upper[i] = c]]

toLowerChar(c) == IF c \in DOMAIN LowerOf THEN LowerOf[c] ELSE c

\* String.prototype.toLowerCase
toLowerCase(s) == [i \in 1..Len(s) |-> toLowerChar(s[i])]

\* String.prototype.includes: sub occurs in s at some offset
includes(s, sub) ==
  \E off \in 0..(Len(s) - Len(sub)) : SubSeq(s, off + 1, off + Len(sub)) = sub

\* SubjectType
Math     == <<"M","a","t","h">>
Language == <<"L","a","n","g","u","a","g","e">>
Science  == <<"S","c","i","e","n","c","e">>
Art      == <<"A","r","t">>
Other    == <<"O","t","h","e","r">>
SubjectType == {Math, Language, Science, Art, Other}

\* what a template literal prints for an absent value
Undefined == <<"u","n","d","e","f","i","n","e","d">>

----------------------------------------------------------------------------
(* Arrays *)

Min2(a, b) == IF a < b THEN a ELSE b
Max2(a, b) == IF a > b THEN a ELSE b

\* Array.prototype.splice(start, deleteCount, ...items): the array it leaves
splice(arr, start, deleteCount, items) ==
  LET len == Len(arr)
      s   == IF start < 0 THEN Max2(len + start, 0) ELSE Min2(start, len)
      dc  == Min2(Max2(deleteCount, 0), len - s)
  IN  SubSeq(arr, 1, s) \o items \o SubSeq(arr, s + dc + 1, len)

----------------------------------------------------------------------------
(* processAgentCommand: the agent's response and the texts it answers with *)

\* a Task of types.ts (createdAt is written once and never read)
Task(id, title, subject, estimatedMinutes, steps, status) ==
  [id |-> id, title |-> title, subject |-> subject,
   estimatedMinutes |-> estimatedMinutes, steps |-> steps, status |-> status]

\* the response texts, by template: the task title or keyword printed, the number printed
Text(kind, arg, num) == [kind |-> kind, arg |-> arg, num |-> num]

AgentText(t)        == Text("agent", t, 0)
PlanUpdatedText     == Text("I've updated your plan!", <<>>, 0)
UpdatedText(t, n)   == Text("Updated _ to _ minutes.", t, n)
RemovedText(t)      == Text("Removed _ from your list.", t, 0)
MovedText(t, n)     == Text("Moved _ to position #_.", t, n)
NotFoundText(k)     == Text("I couldn't find a task matching \"_\".", k, 0)
SorryText           == Text("Sorry, I had trouble connecting to my brain! Try again?", <<>>, 0)
Greeting            == Text("Hi! I'm your study buddy.", <<>>, 0)

\* `${args.taskKeyword}`
PrintedKeyword(args) ==
  IF "taskKeyword" \in DOMAIN args THEN args.taskKeyword ELSE Undefined

\* (args.taskKeyword || "").toLowerCase()
LowerKeyword(args) ==
  toLowerCase(IF "taskKeyword" \in DOMAIN args THEN args.taskKeyword ELSE <<>>)

\* mutant: the title and the subject are compared as they are written
MatchesCaseSensitive(t, lowerKeyword) ==
  includes(t.title, lowerKeyword) \/ includes(t.subject, lowerKeyword)

\* t => t.title.toLowerCase().includes(k) || t.subject.toLowerCase().includes(k)
Matches(t, lowerKeyword) ==
  \/ includes(toLowerCase(t.title), lowerKeyword)
  \/ includes(toLowerCase(t.subject), lowerKeyword)

\* Array.prototype.findIndex from index i on: the first index whose element passes, else -1
RECURSIVE FindIndexFrom(_, _, _)
FindIndexFrom(arr, lowerKeyword, i) ==
  IF i >= Len(arr) THEN -1
  ELSE IF Matches(arr[i + 1], lowerKeyword) THEN i
  ELSE FindIndexFrom(arr, lowerKeyword, i + 1)

findIndex(newTasks, lowerKeyword) == FindIndexFrom(newTasks, lowerKeyword, 0)

\* the locals of processAgentCommand that the loop over functionCalls updates
Locals(newTasks, responseText, tasksModified) ==
  [newTasks |-> newTasks, responseText |-> responseText, tasksModified |-> tasksModified]

\* mutant: every task that matches is given the new time
updateTaskTimeAllMatches(args, st) ==
  LET idx == findIndex(st.newTasks, LowerKeyword(args))
  IN  IF idx # -1
        THEN Locals([j \in DOMAIN st.newTasks |->
                       IF Matches(st.newTasks[j], LowerKeyword(args))
                         THEN [st.newTasks[j] EXCEPT !.estimatedMinutes = args.newMinutes]
                         ELSE st.newTasks[j]],
                    UpdatedText(st.newTasks[idx + 1].title, args.newMinutes), TRUE)
        ELSE [st EXCEPT !.responseText = NotFoundText(PrintedKeyword(args))]

\* if (call.name === 'updateTaskTime')
updateTaskTime(args, st) ==
  LET idx == findIndex(st.newTasks, LowerKeyword(args))
  IN  IF idx # -1
        THEN Locals([st.newTasks EXCEPT ![idx + 1].estimatedMinutes = args.newMinutes],
                    UpdatedText(st.newTasks[idx + 1].title, args.newMinutes), TRUE)
        ELSE [st EXCEPT !.responseText = NotFoundText(PrintedKeyword(args))]

\* mutant: every task that matches is filtered out
deleteTaskAllMatches(args, st) ==
  LET idx == findIndex(st.newTasks, LowerKeyword(args))
  IN  IF idx # -1
        THEN Locals(SelectSeq(st.newTasks, LAMBDA t : ~Matches(t, LowerKeyword(args))),
                    RemovedText(st.newTasks[idx + 1].title), TRUE)
        ELSE [st EXCEPT !.responseText = NotFoundText(PrintedKeyword(args))]

deleteTask(args, st) ==
  LET idx == findIndex(st.newTasks, LowerKeyword(args))
  IN  IF idx # -1
        THEN Locals(splice(st.newTasks, idx, 1, <<>>),
                    RemovedText(st.newTasks[idx + 1].title), TRUE)
        ELSE [st EXCEPT !.responseText = NotFoundText(PrintedKeyword(args))]

\* mutant: the lower clamp is missing
ClampTargetNoFloor(newPosition, len) ==
  IF newPosition - 1 > len THEN len ELSE newPosition - 1

\* the clamp of reorderTask, on the array with the moved task already removed
ClampTarget(newPosition, len) ==
  LET t0 == newPosition - 1
      t1 == IF t0 < 0 THEN 0 ELSE t0
  IN  IF t1 > len THEN len ELSE t1

\* mutant: the task is inserted at its target without being removed first
reorderTaskCopies(args, st) ==
  LET idx == findIndex(st.newTasks, LowerKeyword(args))
  IN  IF idx # -1
        THEN LET taskToMove  == st.newTasks[idx + 1]
                 targetIndex == ClampTarget(args.newPosition, Len(st.newTasks))
             IN  Locals(splice(st.newTasks, targetIndex, 0, <<taskToMove>>),
                        MovedText(taskToMove.title, targetIndex + 1), TRUE)
        ELSE [st EXCEPT !.responseText = NotFoundText(PrintedKeyword(args))]

\* else if (call.name === "reorderTask")
reorderTask(args, st) ==
  LET idx == findIndex(st.newTasks, LowerKeyword(args))
  IN  IF idx # -1
        THEN LET taskToMove  == st.newTasks[idx + 1]
                 removed     == splice(st.newTasks, idx, 1, <<>>)
                 targetIndex == ClampTarget(args.newPosition, Len(removed))
             IN  Locals(splice(removed, targetIndex, 0, <<taskToMove>>),
                        MovedText(taskToMove.title, targetIndex + 1), TRUE)
        ELSE [st EXCEPT !.responseText = NotFoundText(PrintedKeyword(args))]

\* mutant: nothing is executed once an operation has failed to resolve
ExecCallStopOnFailure(call, st) ==
  IF st.responseText.kind = NotFoundText(<<>>).kind THEN st
  ELSE IF call.name = "updateTaskTime" THEN updateTaskTime(call.args, st)
  ELSE IF call.name = "deleteTask" THEN deleteTask(call.args, st)
  ELSE IF call.name = "reorderTask" THEN reorderTask(call.args, st)
  ELSE st

\* one iteration of `for (const call of functionCalls)`
ExecCall(call, st) ==
  IF call.name = "updateTaskTime" THEN updateTaskTime(call.args, st)
  ELSE IF call.name = "deleteTask" THEN deleteTask(call.args, st)
  ELSE IF call.name = "reorderTask" THEN reorderTask(call.args, st)
  ELSE st

RECURSIVE RunCalls(_, _)
RunCalls(calls, st) ==
  IF calls = <<>> THEN st ELSE RunCalls(Tail(calls), ExecCall(Head(calls), st))

\* the locals before the loop; an absent or empty text part gives the default text
InitLocals(response, currentTasks) ==
  Locals(currentTasks,
         IF response.text # <<>> THEN AgentText(response.text) ELSE PlanUpdatedText,
         FALSE)

\* return { responseText, updatedTasks: tasksModified ? newTasks : undefined }
ReturnValue(st) ==
  [responseText |-> st.responseText, hasUpdatedTasks |-> st.tasksModified,
   updatedTasks |-> IF st.tasksModified THEN st.newTasks ELSE <<>>]

\* the catch block
CaughtValue == [responseText |-> SorryText, hasUpdatedTasks |-> FALSE, updatedTasks |-> <<>>]

processAgentCommand(response, currentTasks) ==
  IF response.ok
    THEN ReturnValue(RunCalls(response.functionCalls, InitLocals(response, currentTasks)))
    ELSE CaughtValue

\* mutant: the list of the result is committed whether or not there is one
HandleResultAlways(result, mounted) ==
  /\ tasks' = result.updatedTasks
  /\ reply' = IF mounted THEN result.responseText ELSE reply

\* CompanionChat.handleSend after the await: commit the list if one came back and show
\* the text (setMessages has no effect once the chat that sent the command is unmounted)
HandleResult(result, mounted) ==
  /\ tasks' = IF result.hasUpdatedTasks THEN result.updatedTasks ELSE tasks
  /\ reply' = IF mounted THEN result.responseText ELSE reply

----------------------------------------------------------------------------
(* The inputs processAgentCommand is given: task lists and agent responses *)

Essay    == <<"E","S","S","A","Y">>
ArtLower == <<"a","r","t">>
OkText   == <<"o","k">>

Step(id, text, isCompleted) == [id |-> id, text |-> text, isCompleted |-> isCompleted]

\* kinds of task a list is drawn from: <<title, subject, minutes, step texts, status>>
TaskKinds ==
  { <<Math, Other, 30, <<>>, "pending">>,
    <<Essay, Math, 20, <<"Read">>, "completed">>,
    <<ArtLower, Art, 10, <<>>, "pending">> }

\* crypto.randomUUID(): the k-th value drawn by the n-th handler run that draws any;
\* the values of different draws are different
Uuid(n, k) == <<n, k>>

\* useRef<string | null>(null)
Null == <<>>

\* the lists of up to MaxTasks tasks over kinds; the ids of tasks and steps are distinct
ListsOver(kinds, max) ==
  { [i \in DOMAIN f |->
       Task(Uuid(0, i), f[i][1], f[i][2], f[i][3],
            [j \in DOMAIN f[i][4] |-> Step(Uuid(0, MaxTasks + i), f[i][4][j], FALSE)],
            f[i][5])] :
      f \in UNION { [1..n -> kinds] : n \in 0..max } }

InitLists == ListsOver(TaskKinds, MaxTasks)

Keywords   == { <<>>, <<"A","T">>, <<"s","a","y">>, <<"z","z">> }
NewMinutes == { 0, 45 }
Positions  == (-1)..MaxPos

Call(name, args) == [name |-> name, args |-> args]

\* the function calls an agent response can carry; taskKeyword may be missing
Calls ==
       { Call("updateTaskTime", [taskKeyword |-> k, newMinutes |-> m]) :
           k \in Keywords, m \in NewMinutes }
  \cup { Call("updateTaskTime", [newMinutes |-> m]) : m \in NewMinutes }
  \cup { Call("reorderTask", [taskKeyword |-> k, newPosition |-> q]) :
           k \in Keywords, q \in Positions }
  \cup { Call("reorderTask", [newPosition |-> q]) : q \in Positions }
  \cup { Call("deleteTask", [taskKeyword |-> k]) : k \in Keywords }
  \cup { Call("deleteTask", <<>>), Call("someOtherTool", <<>>) }

Batches == UNION { [1..n -> Calls] : n \in 0..MaxCalls }

\* generateContent resolved (ok) with a text part (<<>>: none) and function calls, or threw
Response(ok, text, functionCalls) ==
  [ok |-> ok, text |-> text, functionCalls |-> functionCalls]

Responses ==
  { Response(TRUE, t, b) : t \in {<<>>, OkText}, b \in Batches }
    \cup { Response(FALSE, <<>>, <<>>) }

----------------------------------------------------------------------------
(* One invocation of processAgentCommand, iteration by iteration *)

\* currentTasks, the response, the calls executed so far (i), the locals now (st) and at
\* the start of the iteration executed last (prev), and how often the response was handled
Run(currentTasks, response, i, st, prev, pc, count) ==
  [currentTasks |-> currentTasks, response |-> response, i |-> i, st |-> st,
   prev |-> prev, pc |-> pc, count |-> count]

IdleRun ==
  Run(<<>>, Response(FALSE, <<>>, <<>>), 0, Locals(<<>>, SorryText, FALSE),
      Locals(<<>>, SorryText, FALSE), "idle", 0)

StartRun(currentTasks, response, count) ==
  Run(currentTasks, response, 0, InitLocals(response, currentTasks),
      InitLocals(response, currentTasks), "loop", count)

\* the state of the app outside the command flow, as constructed
Unmounted ==
  /\ timeLeft = 0
  /\ isPlaying = FALSE
  /\ totalTime = 0
  /\ localSteps = <<>>
  /\ prevTaskIdRef = Null
  /\ genReqs = <<>>
  /\ intervals = 0

InitBatch ==
  /\ tasks \in InitLists
  /\ mode = "planning"
  /\ uuid = 0
  /\ quickReqs = {}
  /\ isAnalyzing = FALSE
  /\ imageReqs = 0
  /\ alerted = FALSE
  /\ isProcessing = TRUE
  /\ cmdReqs = <<>>
  /\ reply = Greeting
  /\ Unmounted
  /\ \E r \in Responses : run = StartRun(tasks, r, 1)

\* one iteration of the loop over functionCalls
BatchCall ==
  /\ run.pc = "loop"
  /\ run.response.ok
  /\ run.i < Len(run.response.functionCalls)
  /\ run' = [run EXCEPT !.i = @ + 1,
                        !.prev = run.st,
                        !.st = ExecCall(run.response.functionCalls[run.i + 1], @)]
  /\ UNCHANGED <<appVars, focusVars>>

\* the return (or the catch) and handleSend's use of the result
BatchReturn ==
  /\ run.pc = "loop"
  /\ run.response.ok => run.i = Len(run.response.functionCalls)
  /\ HandleResult(IF run.response.ok THEN ReturnValue(run.st) ELSE CaughtValue, TRUE)
  /\ isProcessing' = FALSE
  /\ run' = [run EXCEPT !.pc = "returned"]
  /\ UNCHANGED <<mode, uuid, quickReqs, isAnalyzing, imageReqs, alerted, cmdReqs, focusVars>>

\* the user sends the command again and the agent answers the same
BatchResend ==
  /\ run.pc = "returned"
  /\ run.count < MaxRuns
  /\ ~isProcessing
  /\ isProcessing' = TRUE
  /\ run' = StartRun(tasks, run.response, run.count + 1)
  /\ UNCHANGED <<tasks, mode, uuid, quickReqs, isAnalyzing, imageReqs, alerted, cmdReqs, reply, focusVars>>

NextBatch == BatchCall \/ BatchReturn \/ BatchResend

SpecBatch == InitBatch /\ [][NextBatch]_vars

----------------------------------------------------------------------------
(* What the claims say of one operation, stated without the code's operators *)

\* a and b are one letter, in either case
LetterPairs == { {Upper[i], Lower[i]} : i \in DOMAIN Upper }

SameLetter(a, b) == a = b \/ {a, b} \in LetterPairs

\* k is a case-insensitive substring of s
ContainsCI(s, k) ==
  \E off \in 0..(Len(s) - Len(k)) : \A j \in 1..Len(k) : SameLetter(s[off + j], k[j])

KeywordOf(call) ==
  IF "taskKeyword" \in DOMAIN call.args THEN call.args.taskKeyword ELSE <<>>

\* the positions of the tasks of list that the keyword of call matches
Candidates(call, list) ==
  { p \in 1..Len(list) :
      ContainsCI(list[p].title, KeywordOf(call)) \/ ContainsCI(list[p].subject, KeywordOf(call)) }

Lowest(S) == CHOOSE p \in S : \A q \in S : p <= q

IsOperation(call) == call.name \in {"updateTaskTime", "reorderTask", "deleteTask"}

Resolves(call, list) == IsOperation(call) /\ Candidates(call, list) # {}

Unresolved(call, list) == IsOperation(call) /\ Candidates(call, list) = {}

RemoveAt(list, p) == [j \in 1..(Len(list) - 1) |-> IF j < p THEN list[j] ELSE list[j + 1]]

InsertAt(list, p, t) ==
  [j \in 1..(Len(list) + 1) |-> IF j < p THEN list[j] ELSE IF j = p THEN t ELSE list[j - 1]]

Without(list, id) == SelectSeq(list, LAMBDA t : t.id # id)

PositionsOf(list, id) == { p \in 1..Len(list) : list[p].id = id }

\* TaskStore.moveTo: remove, then reinsert at clamp(targetPosition, 0, currentLength)
MoveTo(list, p, newPosition) ==
  LET rest == RemoveAt(list, p)
      at   == IF newPosition - 1 < 0 THEN 0
              ELSE IF newPosition - 1 > Len(rest) THEN Len(rest) ELSE newPosition - 1
  IN  InsertAt(rest, at + 1, list[p])

\* the effect of one operation on a snapshot
Effect(call, list) ==
  IF ~Resolves(call, list) THEN list
  ELSE LET p == Lowest(Candidates(call, list))
       IN  CASE call.name = "updateTaskTime" ->
                  [list EXCEPT ![p] = [@ EXCEPT !.estimatedMinutes = call.args.newMinutes]]
             [] call.name = "deleteTask"  -> RemoveAt(list, p)
             [] call.name = "reorderTask" -> MoveTo(list, p, call.args.newPosition)

RECURSIVE LeftFold(_, _)
LeftFold(calls, list) ==
  IF calls = <<>> THEN list ELSE LeftFold(Tail(calls), Effect(Head(calls), list))

\* the call the iteration executed last ran, and the snapshots before and after it
Executed   == run.pc # "idle" /\ run.response.ok /\ run.i >= 1
LastCall   == run.response.functionCalls[run.i]
Before     == run.prev.newTasks
After      == run.st.newTasks
Returned   == run.pc = "returned"
CallsOf    == run.response.functionCalls

FailureMessage(call) ==
  NotFoundText(IF "taskKeyword" \in DOMAIN call.args THEN call.args.taskKeyword ELSE Undefined)

IsFailureText(t) == t.kind = NotFoundText(<<>>).kind

\* the snapshot the j-th call of the batch was resolved against
SnapshotAt(j) == LeftFold(SubSeq(CallsOf, 1, j - 1), run.currentTasks)

OperationIndexes == { j \in 1..Len(CallsOf) : IsOperation(CallsOf[j]) }

LastOperation == CallsOf[CHOOSE j \in OperationIndexes : \A k \in OperationIndexes : k <= j]

\* no operation of the batch resolves (the list then never changes, so every operation
\* is resolved against currentTasks)
AllUnresolved ==
  /\ run.response.ok
  /\ OperationIndexes # {}
  /\ \A j \in OperationIndexes : Candidates(CallsOf[j], run.currentTasks) = {}

----------------------------------------------------------------------------
(* Claims on processAgentCommand, under SpecBatch *)

\* C4: the operations of a batch are applied in order to one evolving snapshot: after
\* each iteration the list is the effect of that operation on the snapshot the
\* operations before it left (an unresolved one leaves it as it is and the loop goes
\* on), so the list is the left fold of the effects, and that fold is what is committed.
C4_LeftFold ==
  (run.pc # "idle" /\ run.response.ok) =>
     /\ After = LeftFold(SubSeq(CallsOf, 1, run.i), run.currentTasks)
     /\ Executed => After = Effect(LastCall, Before)
     /\ (Returned /\ run.st.tasksModified) => tasks = LeftFold(CallsOf, run.currentTasks)

\* a Delete or Reorder came first and the second operation resolves to another task
\* than it would have on the list as submitted
C4_Witness ==
  /\ Returned /\ run.response.ok /\ Len(CallsOf) = 2
  /\ CallsOf[1].name \in {"deleteTask", "reorderTask"}
  /\ Resolves(CallsOf[1], run.currentTasks)
  /\ Resolves(CallsOf[2], run.currentTasks)
  /\ Resolves(CallsOf[2], SnapshotAt(2))
  /\ SnapshotAt(2)[Lowest(Candidates(CallsOf[2], SnapshotAt(2)))].id
       # run.currentTasks[Lowest(Candidates(CallsOf[2], run.currentTasks))].id
  /\ tasks = LeftFold(CallsOf, run.currentTasks)

\* C5: when no operation of the batch resolves, the list after handling the response
\* is the list before, no list is committed, and the text is the failure message of
\* the last operation attempted; so it is each time the same response is handled.
C5_AllUnresolvedNoChange ==
  (Returned /\ AllUnresolved) =>
     /\ tasks = run.currentTasks
     /\ ~run.st.tasksModified
     /\ reply = FailureMessage(LastOperation)

\* the second handling of a batch of two unresolved operations with different keywords
C5_Witness ==
  /\ Returned /\ AllUnresolved /\ run.count = 2
  /\ Len(CallsOf) = 2 /\ OperationIndexes = {1, 2}
  /\ KeywordOf(CallsOf[1]) # KeywordOf(CallsOf[2])
  /\ reply = FailureMessage(CallsOf[2])

\* C6: the response text of a batch names the keyword of every operation of the batch
\* whose keyword matched no task, wherever the operation stands in the batch (stated
\* for the operations that carry a keyword to name).
C6_NamesEveryUnresolvedKeyword ==
  (Returned /\ run.response.ok) =>
     \A j \in 1..Len(CallsOf) :
        (Unresolved(CallsOf[j], SnapshotAt(j)) /\ KeywordOf(CallsOf[j]) # <<>>)
           => reply = FailureMessage(CallsOf[j])

\* C7: the target of an operation is the task of lowest index in the snapshot whose
\* title or subject contains the keyword case-insensitively: that task and no other
\* is updated, removed or moved; with no such task the operation has no target.
C7_FirstMatchIsTarget ==
  (Executed /\ IsOperation(LastCall)) =>
     IF Candidates(LastCall, Before) = {}
       THEN /\ After = Before
            /\ run.st.tasksModified = run.prev.tasksModified
            /\ run.st.responseText = FailureMessage(LastCall)
       ELSE LET p      == Lowest(Candidates(LastCall, Before))
                target == Before[p]
            IN  /\ run.st.tasksModified
                /\ run.st.responseText.arg = target.title
                /\ \A q \in 1..Len(Before) :
                      q # p => \E r \in 1..Len(After) : After[r] = Before[q]
                /\ CASE LastCall.name = "deleteTask" -> PositionsOf(After, target.id) = {}
                      [] LastCall.name = "updateTaskTime" ->
                           /\ After[p].id = target.id
                           /\ After[p].estimatedMinutes = LastCall.args.newMinutes
                      [] LastCall.name = "reorderTask" ->
                           \E r \in 1..Len(After) : After[r] = target

\* a Delete whose keyword matches two tasks or more, the first of them not the head
\* of the list and matched by its subject only
C7_Witness ==
  /\ Executed /\ LastCall.name = "deleteTask"
  /\ KeywordOf(LastCall) # <<>>
  /\ Cardinality(Candidates(LastCall, Before)) >= 2
  /\ Lowest(Candidates(LastCall, Before)) > 1
  /\ ~ContainsCI(Before[Lowest(Candidates(LastCall, Before))].title, KeywordOf(LastCall))
  /\ Len(After) = Len(Before) - 1

\* C8: an operation whose keyword is empty or absent matches no task: on a non-empty
\* list it leaves the list unchanged and is reported as unresolved.
C8_EmptyKeywordMatchesNothing ==
  (Executed /\ IsOperation(LastCall) /\ KeywordOf(LastCall) = <<>> /\ Before # <<>>) =>
     /\ After = Before
     /\ IsFailureText(run.st.responseText)

\* C9: a Reorder that resolves, for any newPosition, leaves its task at one index in
\* [0, length-1], index 0 for position 1 and the last index for any position >= the
\* length, keeps the length, and reports the 1-based position the task occupies; the
\* position a returned "Moved" text reports is where that task is in the list.
C9_ReorderClamped ==
  /\ (Executed /\ LastCall.name = "reorderTask" /\ Candidates(LastCall, Before) # {}) =>
        LET target == Before[Lowest(Candidates(LastCall, Before))]
            at     == PositionsOf(After, target.id)
            n      == LastCall.args.newPosition
        IN  /\ Len(After) = Len(Before)
            /\ Cardinality(at) = 1
            /\ \A q \in at :
                  /\ q - 1 \in 0..(Len(Before) - 1)
                  /\ n = 1 => q - 1 = 0
                  /\ n >= Len(Before) => q - 1 = Len(Before) - 1
                  /\ run.st.responseText = MovedText(target.title, q)
  /\ (Returned /\ reply.kind = MovedText(<<>>, 0).kind) =>
        /\ reply.num \in 1..Len(tasks)
        /\ tasks[reply.num].title = reply.arg

\* a batch of two Reorders: one to a position below 1, then one to a position past the
\* end of the list, each moving its task
C9_Witness ==
  /\ Returned /\ run.response.ok /\ Len(CallsOf) = 2
  /\ CallsOf[1].name = "reorderTask" /\ CallsOf[2].name = "reorderTask"
  /\ Resolves(CallsOf[1], run.currentTasks) /\ Resolves(CallsOf[2], SnapshotAt(2))
  /\ CallsOf[1].args.newPosition < 1
  /\ CallsOf[2].args.newPosition > Len(run.currentTasks)
  /\ SnapshotAt(2) # run.currentTasks
  /\ tasks # SnapshotAt(2)
  /\ reply.num = Len(tasks)

\* C10: a Delete that resolves removes the first match and nothing else, a Reorder
\* that resolves moves its target only: the other tasks are the same sequence, with
\* the same fields, before and after.
C10_OthersUntouched ==
  (Executed /\ Resolves(LastCall, Before)) =>
     LET p == Lowest(Candidates(LastCall, Before))
     IN  /\ LastCall.name = "deleteTask" =>
               /\ Len(After) = Len(Before) - 1
               /\ After = RemoveAt(Before, p)
         /\ LastCall.name = "reorderTask" =>
               /\ Len(After) = Len(Before)
               /\ Without(After, Before[p].id) = Without(Before, Before[p].id)
               /\ \E q \in 1..Len(After) : After[q] = Before[p]

\* a Reorder whose keyword matches several tasks and that changes the order
C10_Witness ==
  /\ Executed /\ LastCall.name = "reorderTask"
  /\ KeywordOf(LastCall) # <<>>
  /\ Cardinality(Candidates(LastCall, Before)) >= 2
  /\ Len(Before) = 3
  /\ After # Before

----------------------------------------------------------------------------
(* FocusMode: the component's state, its render and its two effects *)

\* const pendingTasks = tasks.filter(t => t.status !== 'completed')
pendingTasks(ts) == SelectSeq(ts, LAMBDA t : t.status # "completed")

\* const currentTask = pendingTasks[0], when there is one
HasCurrent(ts)  == pendingTasks(ts) # <<>>
currentTask(ts) == Head(pendingTasks(ts))

Focus(tl, ip, tt, ls, prev, reqs, n) ==
  [timeLeft |-> tl, isPlaying |-> ip, totalTime |-> tt, localSteps |-> ls,
   prevTaskIdRef |-> prev, genReqs |-> reqs, intervals |-> n]

FocusNow ==
  Focus(timeLeft, isPlaying, totalTime, localSteps, prevTaskIdRef, genReqs, intervals)

SetFocus(f) ==
  /\ timeLeft' = f.timeLeft
  /\ isPlaying' = f.isPlaying
  /\ totalTime' = f.totalTime
  /\ localSteps' = f.localSteps
  /\ prevTaskIdRef' = f.prevTaskIdRef
  /\ genReqs' = f.genReqs
  /\ intervals' = f.intervals

\* the useState initial values of a FocusMode that mounts on the list ts (the ref is null)
MountState(ts) ==
  IF HasCurrent(ts)
    THEN Focus(currentTask(ts).estimatedMinutes * SecondsPerMinute, TRUE,
               currentTask(ts).estimatedMinutes * SecondsPerMinute,
               currentTask(ts).steps, Null, <<>>, 0)
    ELSE Focus(0, TRUE, 0, <<>>, Null, <<>>, 0)

\* the reset effect: the state updates it queues, when the task id changed
ResetEffect(ts, f) ==
  IF HasCurrent(ts) /\ f.prevTaskIdRef # currentTask(ts).id
    THEN LET c == currentTask(ts)
         IN  Focus(c.estimatedMinutes * SecondsPerMinute, TRUE,
                   c.estimatedMinutes * SecondsPerMinute, c.steps, c.id,
                   IF Len(c.steps) = 0 THEN Append(f.genReqs, c.id) ELSE f.genReqs,
                   f.intervals)
    ELSE f

\* the timer effect arms the interval on the values of the render it belongs to
Armed(ts, f) == f.isPlaying /\ f.timeLeft > 0 /\ HasCurrent(ts)

\* mutant: the timer effect has no else branch
TimerStopsNever(ts, f) == FALSE

\* the timer effect's else branch: setIsPlaying(false)
TimerStops(ts, f) == ~Armed(ts, f) /\ f.timeLeft = 0 /\ HasCurrent(ts)

\* mutant: the timer effect returns no cleanup
TimerCleanupMissing(n) == n

\* return () => clearInterval(interval): the timer the effect's last run set, if it
\* set one, is cleared before the effect runs again and when FocusMode unmounts
TimerCleanup(n) == IF n > 0 THEN n - 1 ELSE 0

\* the timer effect: the cleanup of its last run, then setInterval when armed
TimerEffect(ts, f) == TimerCleanup(f.intervals) + (IF Armed(ts, f) THEN 1 ELSE 0)

\* one commit: both effects run on the values f of the render, the reset effect first,
\* and their updates are applied in the order they were queued
Commit(ts, f) ==
  [ResetEffect(ts, f) EXCEPT
     !.isPlaying = IF TimerStops(ts, f) THEN FALSE ELSE @,
     !.intervals = TimerEffect(ts, f)]

\* renders and commits until no effect changes the state
RECURSIVE Settle(_, _)
Settle(ts, f) ==
  IF [Commit(ts, f) EXCEPT !.intervals = f.intervals] = f
    THEN Commit(ts, f)
    ELSE Settle(ts, Commit(ts, f))

\* mutant: the thresholds themselves count as below
AtMostPercent(tl, tt, pct) == tl * Percent <= pct * tt

\* (timeLeft / totalTime) * 100 < pct, for totalTime > 0: on the times of a session
\* the double the code computes compares with pct as the exact quotient does
LessThanPercent(tl, tt, pct) == tl * Percent < pct * tt

\* let bgColorClass = ...; if (percentLeft < 40) ...; if (percentLeft < 15) ...
bgColorClass(tl, tt) ==
  IF LessThanPercent(tl, tt, UrgentPercent) THEN "bg-rose-500"
  ELSE IF LessThanPercent(tl, tt, TightPercent) THEN "bg-yellow-400"
  ELSE "bg-emerald-500"

\* a change of the list re-renders FocusMode when it is mounted
AfterSetTasks ==
  IF mode = "focus" THEN SetFocus(Settle(tasks', FocusNow)) ELSE UNCHANGED focusVars

----------------------------------------------------------------------------
(* The external services' answers *)

\* s => ({ id: crypto.randomUUID(), text: s, isCompleted: false }), by the n-th run
\* that draws ids, which has drawn `drawn` of them before
NewSteps(texts, n, drawn) == [j \in DOMAIN texts |-> Step(Uuid(n, drawn + j), texts[j], FALSE)]

FallbackSteps ==
  <<"Prepare materials", "Focus on the first problem", "Continue through the rest",
    "Review work">>
EmptyTextSteps == <<"Start task", "Complete task">>

\* a value generateStepsForTask resolves with: an array of strings, or no array
StepValue(isArray, texts) == [isArray |-> isArray, texts |-> texts]

\* how the step generator's call ends: it throws, it answers without text, with a
\* text that is no JSON, or with a text that parses to the payload
StepOutcome(kind, payload) == [kind |-> kind, payload |-> payload]

StepOutcomes ==
  { StepOutcome("throws", StepValue(FALSE, <<>>)),
    StepOutcome("noText", StepValue(FALSE, <<>>)),
    StepOutcome("noJson", StepValue(FALSE, <<>>)),
    StepOutcome("json", StepValue(TRUE, <<"Read">>)),
    StepOutcome("json", StepValue(TRUE, <<>>)),
    StepOutcome("json", StepValue(FALSE, <<>>)) }

\* generateStepsForTask, from the await on
generateStepsForTask(outcome) ==
  IF outcome.kind = "throws" THEN StepValue(TRUE, FallbackSteps)
  ELSE IF outcome.kind = "noText" THEN StepValue(TRUE, EmptyTextSteps)
  ELSE IF outcome.kind = "noJson" THEN StepValue(TRUE, FallbackSteps)
  ELSE outcome.payload

\* what generateStepsForTask resolves with
StepResults == { generateStepsForTask(o) : o \in StepOutcomes }

QuickTitles == { Math, ArtLower }

Maths == <<"M","A","T","H","S">>

\* mapSubject
mapSubject(str) ==
  LET low == toLowerCase(str)
  IN  IF includes(low, <<"m","a","t","h">>) THEN Math
      ELSE IF includes(low, <<"l","a","n","g">>)
              \/ includes(low, <<"e","n","g","l","i","s","h">>) THEN Language
      ELSE IF includes(low, <<"s","c","i">>) THEN Science
      ELSE IF includes(low, <<"a","r","t">>) THEN Art
      ELSE Other

\* what analyzeHomeworkImage resolves with (ok) or that it threw (the call failed or
\* the text is no JSON); a parsed payload is an array of AITaskResponse or no array
AITask(subject, title, estimatedMinutes, steps) ==
  [subject |-> subject, title |-> title, estimatedMinutes |-> estimatedMinutes,
   steps |-> steps]

ImageResult(ok, isArray, aiTasks) == [ok |-> ok, isArray |-> isArray, aiTasks |-> aiTasks]

ImageResults ==
  { ImageResult(FALSE, FALSE, <<>>),
    ImageResult(TRUE, FALSE, <<>>),
    ImageResult(TRUE, TRUE, <<>>),
    ImageResult(TRUE, TRUE, <<AITask(Maths, Essay, 1, <<"Read">>)>>),
    ImageResult(TRUE, TRUE, <<AITask(Essay, Math, 0, <<>>)>>),
    ImageResult(TRUE, TRUE, <<AITask(Art, ArtLower, -1, <<"Draw">>)>>) }

\* the await or aiTasks.map throws: handleImageCaptured ends in its catch
ImageFails(result) == ~result.ok \/ ~result.isArray

\* the agent responses the app is given: none, text only, or one function call
AppCalls ==
  { Call("updateTaskTime", [taskKeyword |-> <<"A","T">>, newMinutes |-> 1]),
    Call("deleteTask", [taskKeyword |-> <<"A","T">>]),
    Call("reorderTask", [taskKeyword |-> <<"a","r","t">>, newPosition |-> 1]),
    Call("deleteTask", [taskKeyword |-> <<"z","z">>]) }

AppResponses ==
  { Response(FALSE, <<>>, <<>>), Response(TRUE, OkText, <<>>) }
    \cup { Response(TRUE, <<>>, <<c>>) : c \in AppCalls }

----------------------------------------------------------------------------
(* The app: Dashboard, CompanionChat, FocusMode over App's task list *)

Init ==
  /\ tasks = <<>>
  /\ mode = "planning"
  /\ uuid = 0
  /\ quickReqs = {}
  /\ isAnalyzing = FALSE
  /\ imageReqs = 0
  /\ alerted = FALSE
  /\ isProcessing = FALSE
  /\ cmdReqs = <<>>
  /\ reply = Greeting
  /\ Unmounted
  /\ run = IdleRun

RemoveIndex(seq, k) == [j \in 1..(Len(seq) - 1) |-> IF j < k THEN seq[j] ELSE seq[j + 1]]

\* Dashboard.handleAddQuickTask up to the await
handleAddQuickTask(quickTitle) ==
  /\ mode = "planning"
  /\ quickTitle # <<>>
  /\ uuid < MaxUuid
  /\ uuid' = uuid + 1
  /\ tasks' = Append(tasks, Task(Uuid(uuid + 1, 1), quickTitle, Other, QuickAddMinutes,
                                 <<>>, "pending"))
  /\ quickReqs' = quickReqs \cup {Uuid(uuid + 1, 1)}
  /\ UNCHANGED <<mode, isAnalyzing, imageReqs, alerted, isProcessing, cmdReqs, reply, focusVars, run>>

\* Dashboard.handleAddQuickTask after the await: the steps are installed in the task
QuickStepsArrive(id, steps) ==
  /\ id \in quickReqs
  /\ quickReqs' = quickReqs \ {id}
  /\ IF steps.isArray /\ \E k \in DOMAIN tasks : tasks[k].id = id
       THEN /\ uuid < MaxUuid
            /\ tasks' = [k \in DOMAIN tasks |->
                           IF tasks[k].id = id
                             THEN [tasks[k] EXCEPT !.steps = NewSteps(steps.texts, uuid + 1, 0)]
                             ELSE tasks[k]]
            /\ uuid' = uuid + 1
       ELSE UNCHANGED <<tasks, uuid>>
  /\ AfterSetTasks
  /\ UNCHANGED <<mode, isAnalyzing, imageReqs, alerted, isProcessing, cmdReqs, reply, run>>

\* Dashboard.removeTask
removeTask(id) ==
  /\ mode = "planning"
  /\ \E k \in DOMAIN tasks : tasks[k].id = id
  /\ tasks' = SelectSeq(tasks, LAMBDA t : t.id # id)
  /\ UNCHANGED <<mode, uuid, quickReqs, isAnalyzing, imageReqs, alerted, isProcessing, cmdReqs,
                 reply, focusVars, run>>

\* Dashboard.handleImageCaptured up to the await
handleImageCaptured ==
  /\ mode = "planning"
  /\ ~isAnalyzing
  /\ imageReqs < MaxImgs
  /\ isAnalyzing' = TRUE
  /\ imageReqs' = imageReqs + 1
  /\ UNCHANGED <<tasks, mode, uuid, quickReqs, alerted, isProcessing, cmdReqs, reply,
                 focusVars, run>>

\* aiTasks.map(t => ({ id: crypto.randomUUID(), ..., status: 'pending' })), by the n-th
\* run that draws ids, which has drawn `drawn` of them before
RECURSIVE TasksOf(_, _, _)
TasksOf(aiTasks, n, drawn) ==
  IF aiTasks = <<>> THEN <<>>
  ELSE LET t == Head(aiTasks)
       IN  <<Task(Uuid(n, drawn + 1), t.title, mapSubject(t.subject), t.estimatedMinutes,
                  NewSteps(t.steps, n, drawn + 1), "pending")>>
             \o TasksOf(Tail(aiTasks), n, drawn + 1 + Len(t.steps))

\* mutant: setIsAnalyzing(false) is called after setTasks and not in a finally
ImageArrivesNoFinally(mounted, result) ==
  /\ imageReqs > 0
  /\ mounted => isAnalyzing
  /\ ~mounted => imageReqs > (IF isAnalyzing THEN 1 ELSE 0)
  /\ imageReqs' = imageReqs - 1
  /\ isAnalyzing' = IF mounted /\ ~ImageFails(result) THEN FALSE ELSE isAnalyzing
  /\ alerted' = ImageFails(result)
  /\ IF ~ImageFails(result) /\ result.aiTasks # <<>>
       THEN /\ uuid < MaxUuid
            /\ tasks' = tasks \o TasksOf(result.aiTasks, uuid + 1, 0)
            /\ uuid' = uuid + 1
       ELSE UNCHANGED <<tasks, uuid>>
  /\ AfterSetTasks
  /\ UNCHANGED <<mode, quickReqs, isProcessing, cmdReqs, reply, run>>

\* Dashboard.handleImageCaptured after the await (try, catch with its alert, finally);
\* mounted: the Dashboard that asked is still the one on screen
ImageArrives(mounted, result) ==
  /\ imageReqs > 0
  /\ mounted => isAnalyzing
  /\ ~mounted => imageReqs > (IF isAnalyzing THEN 1 ELSE 0)
  /\ imageReqs' = imageReqs - 1
  /\ isAnalyzing' = IF mounted THEN FALSE ELSE isAnalyzing
  /\ alerted' = ImageFails(result)
  /\ IF ~ImageFails(result) /\ result.aiTasks # <<>>
       THEN /\ uuid < MaxUuid
            /\ tasks' = tasks \o TasksOf(result.aiTasks, uuid + 1, 0)
            /\ uuid' = uuid + 1
       ELSE UNCHANGED <<tasks, uuid>>
  /\ AfterSetTasks
  /\ UNCHANGED <<mode, quickReqs, isProcessing, cmdReqs, reply, run>>

\* CompanionChat.handleSend up to the await: the call is given the tasks of this render
handleSendWithin(max) ==
  /\ mode = "planning"
  /\ ~isProcessing
  /\ Len(cmdReqs) < max
  /\ isProcessing' = TRUE
  /\ cmdReqs' = Append(cmdReqs, [tasks |-> tasks, mounted |-> TRUE])
  /\ UNCHANGED <<tasks, mode, uuid, quickReqs, isAnalyzing, imageReqs, alerted, reply, focusVars, run>>

handleSend == handleSendWithin(MaxCmds)

\* CompanionChat.handleSend after the await, for the k-th call in flight
CommandArrives(k, response) ==
  /\ k \in DOMAIN cmdReqs
  /\ HandleResult(processAgentCommand(response, cmdReqs[k].tasks), cmdReqs[k].mounted)
  /\ isProcessing' = IF cmdReqs[k].mounted THEN FALSE ELSE isProcessing
  /\ cmdReqs' = RemoveIndex(cmdReqs, k)
  /\ AfterSetTasks
  /\ UNCHANGED <<mode, uuid, quickReqs, isAnalyzing, imageReqs, alerted, run>>

\* App.handleStartFocus: the Dashboard and its chat unmount, FocusMode mounts
handleStartFocus ==
  /\ mode = "planning"
  /\ Len(tasks) > 0
  /\ mode' = "focus"
  /\ isAnalyzing' = FALSE
  /\ isProcessing' = FALSE
  /\ reply' = Greeting
  /\ cmdReqs' = [k \in DOMAIN cmdReqs |-> [cmdReqs[k] EXCEPT !.mounted = FALSE]]
  /\ SetFocus(Settle(tasks, MountState(tasks)))
  /\ UNCHANGED <<tasks, uuid, quickReqs, imageReqs, alerted, run>>

\* App.handleExitFocus: FocusMode unmounts (its calls in flight find no component)
handleExitFocus ==
  /\ mode = "focus"
  /\ mode' = "planning"
  /\ SetFocus(Focus(0, FALSE, 0, <<>>, Null, <<>>, TimerCleanup(intervals)))
  /\ UNCHANGED <<tasks, uuid, quickReqs, isAnalyzing, imageReqs, alerted, isProcessing, cmdReqs,
                 reply, run>>

\* App.handleCompleteTask(currentTask.id), the Done button
handleCompleteTask ==
  /\ mode = "focus"
  /\ HasCurrent(tasks)
  /\ tasks' = [k \in DOMAIN tasks |->
                 IF tasks[k].id = currentTask(tasks).id
                   THEN [tasks[k] EXCEPT !.status = "completed"]
                   ELSE tasks[k]]
  /\ SetFocus(Settle(tasks', FocusNow))
  /\ UNCHANGED <<mode, uuid, quickReqs, isAnalyzing, imageReqs, alerted, isProcessing, cmdReqs,
                 reply, run>>

\* mutant: the callback takes two seconds off
TickTakesTwo ==
  /\ mode = "focus"
  /\ intervals > 0
  /\ SetFocus(Settle(tasks, [FocusNow EXCEPT !.timeLeft = @ - 2]))
  /\ UNCHANGED <<appVars, run>>

\* the callback of a live interval: setTimeLeft(prev => prev - 1)
Tick ==
  /\ mode = "focus"
  /\ intervals > 0
  /\ SetFocus(Settle(tasks, [FocusNow EXCEPT !.timeLeft = @ - 1]))
  /\ UNCHANGED <<appVars, run>>

\* the ticks followed are capped
TickCapped == totalTime - timeLeft < MaxTicks /\ Tick

\* mutant: the play/pause button also restarts the countdown
TogglePlayRestarts ==
  /\ mode = "focus"
  /\ HasCurrent(tasks)
  /\ SetFocus(Settle(tasks, [FocusNow EXCEPT !.isPlaying = ~@, !.timeLeft = totalTime]))
  /\ UNCHANGED <<appVars, run>>

\* the play/pause button: setIsPlaying(!isPlaying)
TogglePlay ==
  /\ mode = "focus"
  /\ HasCurrent(tasks)
  /\ SetFocus(Settle(tasks, [FocusNow EXCEPT !.isPlaying = ~@]))
  /\ UNCHANGED <<appVars, run>>

\* mutant: a toggled step is marked completed, whatever it was
ToggledStepsSetsDone(prev, stepId) ==
  [j \in DOMAIN prev |->
     IF prev[j].id = stepId THEN [prev[j] EXCEPT !.isCompleted = TRUE] ELSE prev[j]]

\* prev.map(s => s.id === stepId ? { ...s, isCompleted: !s.isCompleted } : s)
ToggledSteps(prev, stepId) ==
  [j \in DOMAIN prev |->
     IF prev[j].id = stepId THEN [prev[j] EXCEPT !.isCompleted = ~@] ELSE prev[j]]

\* FocusMode.toggleStep, called with the id of a step on screen
toggleStep(stepId) ==
  /\ mode = "focus"
  /\ HasCurrent(tasks)
  /\ \E j \in DOMAIN localSteps : localSteps[j].id = stepId
  /\ localSteps' = ToggledSteps(localSteps, stepId)
  /\ UNCHANGED <<appVars, timeLeft, isPlaying, totalTime, prevTaskIdRef, genReqs, intervals,
                 run>>

\* the .then of the reset effect's generateStepsForTask, for the k-th call in flight
GenStepsArrive(k, steps) ==
  /\ mode = "focus"
  /\ k \in DOMAIN genReqs
  /\ genReqs' = RemoveIndex(genReqs, k)
  /\ IF steps.isArray
       THEN /\ uuid < MaxUuid
            /\ localSteps' = NewSteps(steps.texts, uuid + 1, 0)
            /\ uuid' = uuid + 1
       ELSE UNCHANGED <<localSteps, uuid>>
  /\ UNCHANGED <<tasks, mode, quickReqs, isAnalyzing, imageReqs, alerted, isProcessing, cmdReqs,
                 reply, timeLeft, isPlaying, totalTime, prevTaskIdRef, intervals, run>>

Next ==
  \/ \E t \in QuickTitles : handleAddQuickTask(t)
  \/ \E id \in quickReqs, r \in StepResults : QuickStepsArrive(id, r)
  \/ \E k \in DOMAIN tasks : removeTask(tasks[k].id)
  \/ handleImageCaptured
  \/ \E m \in BOOLEAN, r \in ImageResults : ImageArrives(m, r)
  \/ handleSend
  \/ \E k \in DOMAIN cmdReqs, r \in AppResponses : CommandArrives(k, r)
  \/ handleStartFocus
  \/ handleExitFocus
  \/ handleCompleteTask
  \/ TickCapped
  \/ TogglePlay
  \/ \E j \in DOMAIN localSteps : toggleStep(localSteps[j].id)
  \/ \E k \in DOMAIN genReqs, r \in StepResults : GenStepsArrive(k, r)

Spec == Init /\ [][Next]_vars

----------------------------------------------------------------------------
(* A focus session on a drawn list, every tick of the countdown followed *)

\* the tasks of the drawn lists: without steps, with a step, completed
FocusKinds ==
  { <<Math, Other, 1, <<>>, "pending">>,
    <<Essay, Math, 2, <<"Read">>, "pending">>,
    <<ArtLower, Art, 1, <<>>, "completed">> }

InitFocus ==
  /\ tasks \in ListsOver(FocusKinds, MaxFocus)
  /\ mode = "planning"
  /\ uuid = 0
  /\ quickReqs = {}
  /\ isAnalyzing = FALSE
  /\ imageReqs = 0
  /\ alerted = FALSE
  /\ isProcessing = FALSE
  /\ cmdReqs = <<>>
  /\ reply = Greeting
  /\ Unmounted
  /\ run = IdleRun

NextFocus ==
  \/ handleStartFocus
  \/ handleExitFocus
  \/ handleCompleteTask
  \/ Tick
  \/ TogglePlay
  \/ \E j \in DOMAIN localSteps : toggleStep(localSteps[j].id)
  \/ \E k \in DOMAIN genReqs, r \in StepResults : GenStepsArrive(k, r)

SpecFocus == InitFocus /\ [][NextFocus]_vars

----------------------------------------------------------------------------
(* The chat across mode switches: commands sent on a drawn list, with the Dashboard
   (and the CompanionChat in it) unmounted by Start Focus and mounted anew by Exit *)

NextChat ==
  \/ handleSendWithin(MaxChat)
  \/ \E k \in DOMAIN cmdReqs, r \in AppResponses : CommandArrives(k, r)
  \/ handleStartFocus
  \/ handleExitFocus

SpecChat == InitFocus /\ [][NextChat]_vars

----------------------------------------------------------------------------
(* A countdown left alone: a session is started on a drawn list and then only the
   interval and the step generator act. setInterval calls back after 1000 ms as long
   as the interval is live, so Tick is weakly fair *)

NextCountdown ==
  \/ handleStartFocus
  \/ Tick
  \/ \E k \in DOMAIN genReqs, r \in StepResults : GenStepsArrive(k, r)

SpecCountdown == InitFocus /\ [][NextCountdown]_vars /\ WF_vars(Tick)

----------------------------------------------------------------------------
(* The claims about the app and the focus session *)

IdsOf(ts) == { ts[k].id : k \in DOMAIN ts }

\* a change made to `before` since `snapshot` was taken that `after` no longer shows:
\* a task added, a task removed, a task completed, a task given steps
AddLost(snapshot, before, after) ==
  \E k \in DOMAIN before :
     before[k].id \notin IdsOf(snapshot) /\ before[k].id \notin IdsOf(after)

RemoveLost(snapshot, before, after) ==
  \E k \in DOMAIN snapshot :
     snapshot[k].id \notin IdsOf(before) /\ snapshot[k].id \in IdsOf(after)

CompleteLost(snapshot, before, after) ==
  \E k \in DOMAIN before, j \in DOMAIN after :
     /\ after[j].id = before[k].id
     /\ before[k].status = "completed"
     /\ after[j].status # "completed"

StepsLost(snapshot, before, after) ==
  \E k \in DOMAIN before, j \in DOMAIN after :
     /\ after[j].id = before[k].id
     /\ before[k].steps # <<>>
     /\ after[j].steps # before[k].steps

LostChange(snapshot, before, after) ==
  \/ AddLost(snapshot, before, after)
  \/ RemoveLost(snapshot, before, after)
  \/ CompleteLost(snapshot, before, after)
  \/ StepsLost(snapshot, before, after)

\* C1: when the result of a command batch is committed, no change made to the list
\* between the submission of the command and the arrival of its response is lost:
\* a task added, removed, completed or given steps in that interval is still so
\* in the committed list
C1_NoIntervalChangeLost ==
  [][\A k \in DOMAIN cmdReqs, r \in AppResponses :
        (CommandArrives(k, r) /\ processAgentCommand(r, cmdReqs[k].tasks).hasUpdatedTasks)
           => ~LostChange(cmdReqs[k].tasks, tasks, tasks')]_vars

\* C2: a step-generation result is installed in the session's steps only if the task
\* that asked for it is still the active task when it arrives; otherwise the steps
\* shown for the active task are left unchanged
C2_StaleStepsDiscarded ==
  [][\A k \in DOMAIN genReqs, r \in StepResults :
        (/\ GenStepsArrive(k, r)
         /\ HasCurrent(tasks)
         /\ genReqs[k] # currentTask(tasks).id)
           => localSteps' = localSteps]_vars

\* C3: marking the active task completed sets its status to completed and, when
\* another non-completed task exists, leaves the session running with
\* timeLeft = totalTime = 60 * estimatedMinutes of the next non-completed task,
\* still in focus mode; when none remains there is no active task
C3_CompleteStartsNextRunning ==
  [][handleCompleteTask =>
        /\ \E k \in DOMAIN tasks' :
              tasks'[k].id = currentTask(tasks).id /\ tasks'[k].status = "completed"
        /\ mode' = "focus"
        /\ HasCurrent(tasks') =>
              /\ isPlaying'
              /\ totalTime' = SecondsPerMinute * currentTask(tasks').estimatedMinutes
              /\ timeLeft' = totalTime']_vars

\* C11: once a task's status is completed it is never pending or active again for as
\* long as the task is in the list, whatever the step taken
C11_CompletedNeverReverts ==
  [][\A k \in DOMAIN tasks, j \in DOMAIN tasks' :
        (tasks[k].status = "completed" /\ tasks'[j].id = tasks[k].id)
           => tasks'[j].status = "completed"]_vars

\* C12: in every reachable state every task of the list has estimatedMinutes > 0,
\* whatever the external services supply, and the total time of a focus session
\* that has an active task is > 0
C12_EstimatedMinutesPositive ==
  /\ \A k \in DOMAIN tasks : tasks[k].estimatedMinutes > 0
  /\ (mode = "focus" /\ HasCurrent(tasks)) => totalTime > 0

\* C13: entering focus mode with a non-completed task in the list leaves the session
\* running with timeLeft = totalTime = 60 * estimatedMinutes of the first
\* non-completed task, whatever state an earlier session was left in; with no
\* non-completed task there is no active task
C13_EnterFocusRunning ==
  [][handleStartFocus =>
        /\ mode' = "focus"
        /\ HasCurrent(tasks) =>
              /\ isPlaying'
              /\ totalTime' = SecondsPerMinute * currentTask(tasks).estimatedMinutes
              /\ timeLeft' = totalTime'
              /\ prevTaskIdRef' = currentTask(tasks).id]_vars

\* the session has an active task whose time has run out
Expired == mode = "focus" /\ HasCurrent(tasks) /\ timeLeft = 0

\* C14: when timeLeft reaches 0 while running the session is expired: isPlaying is
\* false, no tick is taken at 0 (timeLeft stays 0), and the expiry leaves the task
\* list alone: the active task is still the active task, not completed
C14_ExpiryStopsCountdown ==
  /\ [](Expired => ~isPlaying /\ ~Armed(tasks, FocusNow))
  /\ [][Tick =>
          /\ timeLeft > 0
          /\ timeLeft' = timeLeft - 1
          /\ tasks' = tasks
          /\ timeLeft' = 0 =>
                /\ ~isPlaying'
                /\ HasCurrent(tasks')
                /\ currentTask(tasks').status # "completed"
                /\ prevTaskIdRef' = prevTaskIdRef]_vars

\* a countdown that started above 0 has run out on a task that is still pending
C14_Witness ==
  /\ Expired
  /\ totalTime > 0
  /\ ~isPlaying
  /\ currentTask(tasks).id = prevTaskIdRef

\* C15: the play/pause toggle changes isPlaying only (it flips it while time is
\* left): timeLeft, totalTime, the active task, its steps and the task list are
\* unchanged; a tick is taken only while playing, so a paused timeLeft is frozen
\* and resuming continues from it
C15_ToggleChangesOnlyIsPlaying ==
  /\ [][TogglePlay =>
          /\ timeLeft' = timeLeft
          /\ totalTime' = totalTime
          /\ localSteps' = localSteps
          /\ prevTaskIdRef' = prevTaskIdRef
          /\ genReqs' = genReqs
          /\ tasks' = tasks
          /\ mode' = mode
          /\ timeLeft > 0 => isPlaying' = ~isPlaying]_vars
  /\ [][timeLeft' # timeLeft /\ mode = "focus" /\ mode' = "focus" /\ tasks' = tasks
          => isPlaying]_vars

\* a session paused by the toggle in the middle of its countdown
C15_Witness ==
  /\ mode = "focus"
  /\ HasCurrent(tasks)
  /\ ~isPlaying
  /\ 0 < timeLeft
  /\ timeLeft < totalTime

\* C16: when the agent's response carries no tool call, the task list after handling
\* it is the list before (none is committed) and the text answered is the agent's
\* own text
C16_NoCallsForwardsAgentText ==
  (Returned /\ run.response.ok /\ CallsOf = <<>>)
     => /\ tasks = run.currentTasks
        /\ ~ReturnValue(run.st).hasUpdatedTasks
        /\ reply = AgentText(run.response.text)

StepFailure(outcome) == outcome.kind \in {"throws", "noText", "noJson"}

TextsOf(steps) == [j \in DOMAIN steps |-> steps[j].text]

\* C18: for every failure outcome of the step generator the steps installed are the
\* fixed four-step fallback, and the steps of every request that completes are a
\* non-empty sequence
C18_FailureGivesFallback ==
  [][\A k \in DOMAIN genReqs, o \in StepOutcomes :
        GenStepsArrive(k, generateStepsForTask(o))
           => /\ StepFailure(o) => TextsOf(localSteps') = FallbackSteps
              /\ localSteps' # <<>>]_vars

\* C19: an UpdateTime that resolves sets the estimatedMinutes of its target, the
\* first match, to newMinutes and changes nothing else: the target's other fields
\* and its position, and every other task, are as before
C19_UpdateTimeChangesOnlyMinutes ==
  (Executed /\ LastCall.name = "updateTaskTime" /\ Resolves(LastCall, Before)) =>
     LET p == Lowest(Candidates(LastCall, Before))
     IN  /\ Len(After) = Len(Before)
         /\ After[p].estimatedMinutes = LastCall.args.newMinutes
         /\ After[p].id = Before[p].id
         /\ After[p].title = Before[p].title
         /\ After[p].subject = Before[p].subject
         /\ After[p].steps = Before[p].steps
         /\ After[p].status = Before[p].status
         /\ \A q \in 1..Len(Before) : q # p => After[q] = Before[q]
         /\ run.st.tasksModified
         /\ Returned => tasks = LeftFold(CallsOf, run.currentTasks)

\* an UpdateTime whose keyword matches several tasks of a list of three, the first
\* of them not at the head, and that changes its time
C19_Witness ==
  /\ Executed /\ LastCall.name = "updateTaskTime"
  /\ KeywordOf(LastCall) # <<>>
  /\ Cardinality(Candidates(LastCall, Before)) >= 2
  /\ Lowest(Candidates(LastCall, Before)) > 1
  /\ Len(Before) = 3
  /\ After # Before

\* C20: toggling a step flips the isCompleted flag of that step and of no other
\* (nothing changes when no step has the id) and leaves timeLeft, totalTime,
\* isPlaying, the active task and the task list unchanged; toggling the same step
\* twice gives the steps back
C20_ToggleStepFlipsOneStep ==
  /\ [][\A j \in DOMAIN localSteps :
           toggleStep(localSteps[j].id)
              => /\ Len(localSteps') = Len(localSteps)
                 /\ localSteps'[j] = [localSteps[j] EXCEPT !.isCompleted = ~@]
                 /\ \A i \in DOMAIN localSteps : i # j => localSteps'[i] = localSteps[i]
                 /\ timeLeft' = timeLeft
                 /\ totalTime' = totalTime
                 /\ isPlaying' = isPlaying
                 /\ prevTaskIdRef' = prevTaskIdRef
                 /\ tasks' = tasks
                 /\ mode' = mode]_vars
  /\ [](/\ ToggledSteps(localSteps, Null) = localSteps
        /\ \A j \in DOMAIN localSteps :
              ToggledSteps(ToggledSteps(localSteps, localSteps[j].id), localSteps[j].id)
                = localSteps)

\* several steps on screen, some toggled to completed and some not
C20_Witness ==
  /\ mode = "focus"
  /\ HasCurrent(tasks)
  /\ Len(localSteps) >= 2
  /\ \E i, j \in DOMAIN localSteps : localSteps[i].isCompleted /\ ~localSteps[j].isCompleted

\* C21: in every reachable state the ids of the tasks of the list are pairwise
\* distinct (the ids crypto.randomUUID() gives being distinct)
C21_TaskIdsDistinct ==
  \A i, j \in DOMAIN tasks : i # j => tasks[i].id # tasks[j].id

\* a list of two tasks that a command batch has been committed to, reordering it
C21_Witness ==
  /\ Len(tasks) >= 2
  /\ uuid = MaxUuid
  /\ reply.kind = MovedText(<<>>, 0).kind
  /\ tasks[1].id = Uuid(2, 1)

\* C22: with 0 <= timeLeft <= totalTime and totalTime > 0, the urgency shown is
\* normal exactly when timeLeft / totalTime >= 0.40 (2/5), warning exactly when it
\* is in [0.15, 0.40) (3/20 up to 2/5), and critical exactly when it is < 0.15
C22_UrgencyTiers ==
  (mode = "focus" /\ HasCurrent(tasks) /\ totalTime > 0 /\ 0 <= timeLeft
     /\ timeLeft <= totalTime) =>
     LET shown == bgColorClass(timeLeft, totalTime)
     IN  /\ shown = "bg-emerald-500" <=> 5 * timeLeft >= 2 * totalTime
         /\ shown = "bg-yellow-400" <=>
               (20 * timeLeft >= 3 * totalTime /\ 5 * timeLeft < 2 * totalTime)
         /\ shown = "bg-rose-500" <=> 20 * timeLeft < 3 * totalTime

\* the countdown stands at exactly 0.15 of the total, having passed 0.40
C22_Witness ==
  /\ mode = "focus"
  /\ HasCurrent(tasks)
  /\ totalTime > 0
  /\ 20 * timeLeft = 3 * totalTime
  /\ bgColorClass(timeLeft, totalTime) = "bg-yellow-400"

\* C23: at most one countdown interval is live in every reachable state, and one is live
\* exactly when the session is Running (focus mode, an active task, isPlaying and
\* timeLeft > 0): none while paused, at 0, without an active task or after leaving
\* focus mode, and an interval is set only by a step that ends in Running
Running == mode = "focus" /\ HasCurrent(tasks) /\ isPlaying /\ timeLeft > 0

C23_OneTimerOnlyWhileRunning ==
  /\ intervals <= 1
  /\ intervals = 1 <=> Running
  /\ (~isPlaying \/ timeLeft = 0 \/ ~HasCurrent(tasks) \/ mode # "focus") => intervals = 0

\* the countdown ran down to 0 from a positive total and its interval was cleared
C23_Witness ==
  /\ mode = "focus" /\ HasCurrent(tasks)
  /\ totalTime > 0 /\ timeLeft = 0 /\ ~isPlaying
  /\ intervals = 0

\* C24: at most one processAgentCommand call is in flight at any time, also when the user
\* goes to focus mode and back to planning while a call is outstanding
C24_OneCommandInFlight == Len(cmdReqs) <= 1

\* C25: in every reachable state of a focus session with an active task,
\* 0 <= timeLeft <= totalTime
C25_TimeLeftWithinTotal ==
  (mode = "focus" /\ HasCurrent(tasks)) => (0 <= timeLeft /\ timeLeft <= totalTime)

\* C26: with fair ticks and no user action a Running session reaches Expired
\* (timeLeft = 0, isPlaying false), and every step that changes timeLeft on the way
\* lowers it by exactly 1, so a session Running at n expires after exactly n ticks
C26_CountdownExpires ==
  /\ [][(Running /\ timeLeft' # timeLeft) => (Tick /\ timeLeft' = timeLeft - 1)]_vars
  /\ Running ~> (Expired /\ ~isPlaying)

\* a two-minute countdown has run from 120 to 0 and stopped
C26_Witness ==
  /\ Expired /\ ~isPlaying
  /\ totalTime = 2 * SecondsPerMinute

\* C27: in every reachable state of a focus session with an active task, totalTime is
\* 60 times the estimatedMinutes the active task has in the list now, also after a
\* command response changed them during the session
C27_TotalTimeFollowsEstimate ==
  (mode = "focus" /\ HasCurrent(tasks)) =>
     totalTime = currentTask(tasks).estimatedMinutes * SecondsPerMinute

\* C28: when processAgentCommand returns no list (updatedTasks absent) its responseText
\* is the agent's own text, a "couldn't find a task" message or the apology of the
\* catch block, never the message that the plan was updated
C28_NoListNoUpdateMessage ==
  Returned =>
     LET result == processAgentCommand(run.response, run.currentTasks)
     IN  ~result.hasUpdatedTasks =>
            /\ result.responseText # PlanUpdatedText
            /\ \/ IsFailureText(result.responseText)
               \/ result.responseText = SorryText
               \/ /\ run.response.text # <<>>
                  /\ result.responseText = AgentText(run.response.text)

====
